---- MODULE Spec2Model ----
(***************************************************************************)
(* Loan ledger, catalog counters and fine ledger of the library backend.   *)
(*                                                                         *)
(* Every HTTP handler / service method is one operator that maps the rows  *)
(* it reads to the rows it writes plus the response, and one action that   *)
(* applies it.  Instants are counted in ticks, TicksPerDay ticks to a day; *)
(* DATEONLY columns hold a day number and are read back as the midnight    *)
(* instant of that day, which is what new Date('YYYY-MM-DD') yields.       *)
(* Columns no handler branches on (issue_date, librarian_id, titles, the   *)
(* free-text notes, ...) are left out of the rows.                         *)
(***************************************************************************)
EXTENDS Integers, Sequences, FiniteSets, TLC

\* ------------------------------------------------------------------ bounds
NumStudents == 1
NumBooks == 2
MaxCopies == 2
MaxLoans == 2
MaxNow == 2
TicksPerDay == 2
MaxAllowed == 1
MaxConfigs == 1

\* ------------------------------------------------------- program constants
DefaultFineRate    == 5
DefaultGracePeriod == 0

NullDate == -1
NoCap    == 0
NoInput  == -1

MaxDay == MaxNow \div TicksPerDay

StudentIdInputs == 1..(NumStudents + 1)
BookIdInputs    == 1..NumBooks
LoanIdInputs    == 1..MaxLoans
FineIdInputs    == 1..MaxLoans
DayInputs       == 0..MaxDay
InstantInputs   == 0..MaxNow
RateInputs      == {2}
GraceInputs     == {1}
CapInputs       == {NoCap}
ActiveInputs    == {TRUE}

VARIABLES
  students,     \* students table: id -> [is_active, max_books_allowed]
  books,        \* books table: id -> [total_copies, available_copies, is_active]
  loans,        \* issued_books table: id -> row
  fines,        \* fines table: id -> row
  fineConfigs,  \* fine_configs table in created_at order
  now,          \* the wall clock, in ticks
  inflight,     \* the requests whose store accesses interleave: slot -> request
  suggestions   \* suggested_books table: id -> row

vars == <<students, books, loans, fines, fineConfigs, now, inflight, suggestions>>

\* --------------------------------------------------------------- helpers
Max(a, b) == IF a >= b THEN a ELSE b

\* Math.ceil(a / b) for a >= 0, b > 0
CeilDiv(a, b) == (a + b - 1) \div b

\* new Date(<DATEONLY value>): the midnight instant of the day
DayStart(d) == d * TicksPerDay

\* a Date written to a DATEONLY column keeps its day only
DateOnly(t) == t \div TicksPerDay

\* what a request answers: the handler, the HTTP status, the message and, for
\* the sweep, its report
Response(op, status, message) ==
  [op |-> op, status |-> status, message |-> message, results |-> << >>]

\* ------------------------------------------------------------ row shapes
\* IssuedBook.create({student_id, book_id, due_date}) with the column defaults
NewIssuedBook(student_id, book_id, due_date) ==
  [ student_id  |-> student_id,
    book_id     |-> book_id,
    due_date    |-> due_date,
    return_date |-> NullDate,
    fine_amount |-> 0,
    status      |-> "issued" ]

\* Fine.create(fineData) with the column defaults
NewFine(fineData) ==
  [ issued_book_id    |-> fineData.issued_book_id,
    student_id        |-> fineData.student_id,
    amount            |-> fineData.amount,
    days_overdue      |-> fineData.days_overdue,
    fine_rate_per_day |-> fineData.fine_rate_per_day,
    status            |-> "pending",
    paid_date         |-> NullDate ]

\* --------------------------------------------------------- store queries
\* Student.findOne({ where: { id, is_active: true } })
FindActiveStudent(sts, id) == id \in DOMAIN sts /\ sts[id].is_active

\* Book.findOne({ where: { id, is_active: true } })
FindActiveBook(bks, id) == id \in DOMAIN bks /\ bks[id].is_active

\* IssuedBook.findOne({ where: { student_id, book_id, status: 'issued' } })
ExistingIssue(lns, student_id, book_id) ==
  \E i \in DOMAIN lns :
     /\ lns[i].student_id = student_id
     /\ lns[i].book_id = book_id
     /\ lns[i].status = "issued"

\* IssuedBook.count({ where: { student_id, status: 'issued' } })
CurrentIssued(lns, student_id) ==
  Cardinality({i \in DOMAIN lns :
                 lns[i].student_id = student_id /\ lns[i].status = "issued"})

\* Fine.findOne({ where: { issued_book_id } }): the rows the query matches
FinesOfLoan(fns, id) == {f \in DOMAIN fns : fns[f].issued_book_id = id}

\* Fine.findOne({ where: { issued_book_id, status: 'pending' } }): the rows matched
PendingFinesOfLoan(fns, id) ==
  {f \in DOMAIN fns : fns[f].issued_book_id = id /\ fns[f].status = "pending"}

\* the policy lookup without the is_active filter: the newest row, active or not
CurrentFineConfig_AnyRow(cfgs) ==
  IF cfgs = << >> THEN << >> ELSE << cfgs[Len(cfgs)] >>

\* FineConfig.findOne({ where: { is_active: true }, order: [['created_at','DESC']] })
\* as a sequence: << >> when no row matches, else << row >>
CurrentFineConfig(cfgs) ==
  LET active == {i \in DOMAIN cfgs : cfgs[i].is_active}
  IN IF active = {} THEN << >>
     ELSE << cfgs[CHOOSE i \in active : \A j \in active : j <= i] >>

\* ------------------------------------------------------------ FineService
\* calculateFine reading the oldest fine_configs row instead of the policy in
\* force
calculateFine_OldestConfig(lns, cfgs, t, issuedBookId) ==
  IF issuedBookId \notin DOMAIN lns \/ lns[issuedBookId].status = "returned"
  THEN << >>
  ELSE
    LET issuedBook == lns[issuedBookId]
        dueDate    == DayStart(issuedBook.due_date)
        fineConfig == IF cfgs = << >> THEN << >> ELSE << cfgs[1] >>
        fineRate   == IF fineConfig # << >> THEN fineConfig[1].fine_rate_per_day
                                            ELSE DefaultFineRate
        gracePeriod == IF fineConfig # << >> THEN fineConfig[1].grace_period_days
                                             ELSE DefaultGracePeriod
        daysOverdue == Max(0, CeilDiv(t - dueDate, TicksPerDay) - gracePeriod)
        fineAmount  == daysOverdue * fineRate
        capped      == IF /\ fineConfig # << >>
                          /\ fineConfig[1].max_fine_amount # NoCap
                          /\ fineAmount > fineConfig[1].max_fine_amount
                       THEN fineConfig[1].max_fine_amount
                       ELSE fineAmount
    IN IF t <= dueDate \/ daysOverdue = 0 THEN << >>
       ELSE << [ issued_book_id    |-> issuedBookId,
                 student_id        |-> issuedBook.student_id,
                 amount            |-> capped,
                 days_overdue      |-> daysOverdue,
                 fine_rate_per_day |-> fineRate ] >>

\* calculateFine with the max_fine_amount limit left out
calculateFine_Uncapped(lns, cfgs, t, issuedBookId) ==
  IF issuedBookId \notin DOMAIN lns \/ lns[issuedBookId].status = "returned"
  THEN << >>
  ELSE
    LET issuedBook == lns[issuedBookId]
        dueDate    == DayStart(issuedBook.due_date)
        fineConfig == CurrentFineConfig(cfgs)
        fineRate   == IF fineConfig # << >> THEN fineConfig[1].fine_rate_per_day
                                            ELSE DefaultFineRate
        gracePeriod == IF fineConfig # << >> THEN fineConfig[1].grace_period_days
                                             ELSE DefaultGracePeriod
        daysOverdue == Max(0, CeilDiv(t - dueDate, TicksPerDay) - gracePeriod)
    IN IF t <= dueDate \/ daysOverdue = 0 THEN << >>
       ELSE << [ issued_book_id    |-> issuedBookId,
                 student_id        |-> issuedBook.student_id,
                 amount            |-> daysOverdue * fineRate,
                 days_overdue      |-> daysOverdue,
                 fine_rate_per_day |-> fineRate ] >>

\* FineService.calculateFine(issuedBookId), run at instant t.
\* << >> is the null result, << fineData >> a computed fine.
calculateFine(lns, cfgs, t, issuedBookId) ==
  IF issuedBookId \notin DOMAIN lns \/ lns[issuedBookId].status = "returned"
  THEN << >>
  ELSE
    LET issuedBook == lns[issuedBookId]
        dueDate    == DayStart(issuedBook.due_date)
        fineConfig == CurrentFineConfig(cfgs)
        fineRate   == IF fineConfig # << >> THEN fineConfig[1].fine_rate_per_day
                                            ELSE DefaultFineRate
        gracePeriod == IF fineConfig # << >> THEN fineConfig[1].grace_period_days
                                             ELSE DefaultGracePeriod
        timeDiff    == t - dueDate
        daysOverdue == Max(0, CeilDiv(timeDiff, TicksPerDay) - gracePeriod)
        fineAmount  == daysOverdue * fineRate
        capped      == IF /\ fineConfig # << >>
                          /\ fineConfig[1].max_fine_amount # NoCap
                          /\ fineAmount > fineConfig[1].max_fine_amount
                       THEN fineConfig[1].max_fine_amount
                       ELSE fineAmount
    IN IF t <= dueDate THEN << >>
       ELSE IF daysOverdue = 0 THEN << >>
       ELSE << [ issued_book_id    |-> issuedBookId,
                 student_id        |-> issuedBook.student_id,
                 amount            |-> capped,
                 days_overdue      |-> daysOverdue,
                 fine_rate_per_day |-> fineRate ] >>

\* existingFine.update(fineData) in the sweep: every key of fineData is written
UpdateFineFromData(fine, fineData) ==
  [fine EXCEPT !.issued_book_id    = fineData.issued_book_id,
               !.student_id        = fineData.student_id,
               !.amount            = fineData.amount,
               !.days_overdue      = fineData.days_overdue,
               !.fine_rate_per_day = fineData.fine_rate_per_day]

\* the rows IssuedBook.findAll({ status: 'issued', due_date < new Date() }) returns,
\* as the list of their ids in primary-key order
RECURSIVE OverdueBooksFrom(_, _, _)
OverdueBooksFrom(lns, t, i) ==
  IF i > Len(lns) THEN << >>
  ELSE IF lns[i].status = "issued" /\ DayStart(lns[i].due_date) < t
       THEN <<i>> \o OverdueBooksFrom(lns, t, i + 1)
       ELSE OverdueBooksFrom(lns, t, i + 1)

OverdueBooks(lns, t) == OverdueBooksFrom(lns, t, 1)

\* the sweep body that only inserts: no look-up of a pending fine, no status change
ProcessOverdueBook_CreateOnly(acc, cfgs, t, id) ==
  LET fineData == calculateFine(acc.loans, cfgs, t, id)
  IN IF fineData = << >> THEN acc
     ELSE [ loans   |-> acc.loans,
            fines   |-> Append(acc.fines, NewFine(fineData[1])),
            results |-> Append(acc.results,
                           [issued_book_id |-> id, action |-> "created"]) ]

\* the sweep body that writes the fine and leaves the loan's status alone
ProcessOverdueBook_FineOnly(acc, cfgs, t, id) ==
  LET fineData == calculateFine(acc.loans, cfgs, t, id)
      pending  == PendingFinesOfLoan(acc.fines, id)
  IN IF fineData = << >> THEN acc
     ELSE IF pending # {}
          THEN LET f == CHOOSE x \in pending : \A y \in pending : x <= y
               IN [acc EXCEPT !.fines[f] = UpdateFineFromData(@, fineData[1])]
          ELSE [acc EXCEPT !.fines = Append(acc.fines, NewFine(fineData[1]))]

\* the body of the sweep's for-loop for one selected loan: acc holds the loans,
\* the fines and the results so far
ProcessOverdueBook(acc, cfgs, t, id) ==
  LET fineData == calculateFine(acc.loans, cfgs, t, id)
      pending  == PendingFinesOfLoan(acc.fines, id)
  IN IF fineData = << >> THEN acc
     ELSE
       LET overdue == [acc.loans EXCEPT ![id].status = "overdue"]
       IN IF pending # {}
          THEN LET f == CHOOSE x \in pending : \A y \in pending : x <= y
               IN [ loans   |-> overdue,
                    fines   |-> [acc.fines EXCEPT
                                   ![f] = UpdateFineFromData(@, fineData[1])],
                    results |-> Append(acc.results,
                                   [issued_book_id |-> id, action |-> "updated"]) ]
          ELSE [ loans   |-> overdue,
                 fines   |-> Append(acc.fines, NewFine(fineData[1])),
                 results |-> Append(acc.results,
                                [issued_book_id |-> id, action |-> "created"]) ]

RECURSIVE SweepFrom(_, _, _, _, _)
SweepFrom(acc, cfgs, t, ids, k) ==
  IF k > Len(ids) THEN acc
  ELSE SweepFrom(ProcessOverdueBook(acc, cfgs, t, ids[k]), cfgs, t, ids, k + 1)

\* FineService.generateFinesForOverdueBooks(), run at instant t
generateFinesForOverdueBooks(lns, fns, cfgs, t) ==
  SweepFrom([loans |-> lns, fines |-> fns, results |-> << >>],
            cfgs, t, OverdueBooks(lns, t), 1)

\* payFine with the row written before its status is looked at
payFine_UpdateBeforeCheck(fns, fineId, paidDate) ==
  IF fineId \notin DOMAIN fns
  THEN [fines |-> fns, error |-> "Fine not found"]
  ELSE [fines |-> [fns EXCEPT ![fineId].status = "paid",
                              ![fineId].paid_date = paidDate],
        error |-> IF fns[fineId].status = "paid" THEN "Fine already paid" ELSE ""]

\* FineService.payFine(fineId, paidDate): the fines table afterwards and the
\* error thrown ("" when none)
payFine(fns, fineId, paidDate) ==
  IF fineId \notin DOMAIN fns
  THEN [fines |-> fns, error |-> "Fine not found"]
  ELSE IF fns[fineId].status = "paid"
  THEN [fines |-> fns, error |-> "Fine already paid"]
  ELSE [fines |-> [fns EXCEPT ![fineId].status = "paid",
                              ![fineId].paid_date = paidDate],
        error |-> ""]

\* FineService.waiveFine(fineId, notes)
waiveFine(fns, fineId) ==
  IF fineId \notin DOMAIN fns
  THEN [fines |-> fns, error |-> "Fine not found"]
  ELSE IF fns[fineId].status = "paid"
  THEN [fines |-> fns, error |-> "Cannot waive paid fine"]
  ELSE [fines |-> [fns EXCEPT ![fineId].status = "waived"],
        error |-> ""]

\* ----------------------------------------------------------------- routes
\* book.update({ available_copies: book.available_copies - 1 })
DecrementAvailable(bks, book_id) ==
  [bks EXCEPT ![book_id].available_copies = bks[book_id].available_copies - 1]

\* the increment left out
IncrementAvailable_Skipped(bks, book_id) == bks

\* Book.increment('available_copies', { where: { id } })
IncrementAvailable(bks, book_id) ==
  [bks EXCEPT ![book_id].available_copies = @ + 1]

\* the update that files a late return under 'overdue'
MarkReturned_LateAsOverdue(issuedBook, returnDate, fineAmount) ==
  [issuedBook EXCEPT !.return_date = DateOnly(returnDate),
                     !.status      = IF fineAmount > 0 THEN "overdue"
                                                       ELSE "returned",
                     !.fine_amount = fineAmount]

\* the update with return_date left out
MarkReturned_StatusOnly(issuedBook, returnDate, fineAmount) ==
  [issuedBook EXCEPT !.status      = "returned",
                     !.fine_amount = fineAmount]

\* issuedBook.update({ return_date, status: 'returned', fine_amount })
MarkReturned(issuedBook, returnDate, fineAmount) ==
  [issuedBook EXCEPT !.return_date = DateOnly(returnDate),
                     !.status      = "returned",
                     !.fine_amount = fineAmount]

\* the handler with the limit check run after the rows are written
IssueBook_LimitCheckedLate(sts, bks, lns, student_id, book_id, due_date) ==
  LET unchanged(status, message) ==
        [books |-> bks, loans |-> lns, resp |-> Response("issue", status, message)]
  IN IF ~FindActiveStudent(sts, student_id)
       THEN unchanged(400, "Student not found or inactive")
     ELSE IF ~FindActiveBook(bks, book_id)
       THEN unchanged(400, "Book not found or inactive")
     ELSE IF bks[book_id].available_copies <= 0
       THEN unchanged(400, "Book not available")
     ELSE IF ExistingIssue(lns, student_id, book_id)
       THEN unchanged(400, "Student has already issued this book")
     ELSE [ books |-> DecrementAvailable(bks, book_id),
            loans |-> Append(lns, NewIssuedBook(student_id, book_id, due_date)),
            resp  |-> IF CurrentIssued(lns, student_id) >=
                           sts[student_id].max_books_allowed
                      THEN Response("issue", 400, "Student has reached maximum limit")
                      ELSE Response("issue", 201, "Book issued successfully") ]

\* POST /api/issued-books/issue
IssueBook(sts, bks, lns, student_id, book_id, due_date) ==
  LET unchanged(status, message) ==
        [books |-> bks, loans |-> lns, resp |-> Response("issue", status, message)]
  IN IF ~FindActiveStudent(sts, student_id)
       THEN unchanged(400, "Student not found or inactive")
     ELSE IF ~FindActiveBook(bks, book_id)
       THEN unchanged(400, "Book not found or inactive")
     ELSE IF bks[book_id].available_copies <= 0
       THEN unchanged(400, "Book not available")
     ELSE IF ExistingIssue(lns, student_id, book_id)
       THEN unchanged(400, "Student has already issued this book")
     ELSE IF CurrentIssued(lns, student_id) >= sts[student_id].max_books_allowed
       THEN unchanged(400, "Student has reached maximum limit")
     ELSE [ books |-> DecrementAvailable(bks, book_id),
            loans |-> Append(lns, NewIssuedBook(student_id, book_id, due_date)),
            resp  |-> Response("issue", 201, "Book issued successfully") ]

\* the fine row created without looking for an existing one
UpsertFineOnReturn_AlwaysCreate(fns, existing, fineData) ==
  Append(fns, NewFine(fineData))

\* the create-or-update of the fine row in PUT /api/issued-books/:id/return;
\* existing is the row Fine.findOne({ issued_book_id }) returned, 0 when none
UpsertFineOnReturn(fns, existing, fineData) ==
  IF existing # 0
  THEN [fns EXCEPT ![existing].amount       = fineData.amount,
                   ![existing].days_overdue = fineData.days_overdue,
                   ![existing].status       = "pending"]
  ELSE Append(fns, NewFine(fineData))

\* the handler without its look at the loan's status: a returned loan is
\* returned again
ReturnBook_ReturnedAgain(bks, lns, fns, cfgs, t, id, return_date, existing) ==
  IF id \notin DOMAIN lns
  THEN [ books |-> bks, loans |-> lns, fines |-> fns,
         resp |-> Response("return", 404, "Issued book not found") ]
  ELSE
    LET issuedBook == lns[id]
        returnDate == IF return_date # NoInput THEN return_date ELSE t
        fineData   == IF returnDate > DayStart(issuedBook.due_date)
                      THEN calculateFine(lns, cfgs, t, id)
                      ELSE << >>
        fineAmount == IF fineData # << >> THEN fineData[1].amount ELSE 0
    IN [ fines |-> IF fineData # << >>
                   THEN UpsertFineOnReturn(fns, existing, fineData[1])
                   ELSE fns,
         loans |-> [lns EXCEPT ![id] = MarkReturned(@, returnDate, fineAmount)],
         books |-> IncrementAvailable(bks, issuedBook.book_id),
         resp  |-> IF issuedBook.status = "returned"
                   THEN Response("return", 400, "Book already returned")
                   ELSE Response("return", 200, "Book returned successfully") ]

\* PUT /api/issued-books/:id/return, handled at instant t; return_date is the
\* instant the request body gives, NoInput when it gives none
ReturnBook(bks, lns, fns, cfgs, t, id, return_date, existing) ==
  LET unchanged(status, message) ==
        [ books |-> bks, loans |-> lns, fines |-> fns,
          resp |-> Response("return", status, message) ]
  IN IF id \notin DOMAIN lns
       THEN unchanged(404, "Issued book not found")
     ELSE IF lns[id].status = "returned"
       THEN unchanged(400, "Book already returned")
     ELSE
       LET issuedBook == lns[id]
           returnDate == IF return_date # NoInput THEN return_date ELSE t
           dueDate    == DayStart(issuedBook.due_date)
           fineData   == IF returnDate > dueDate
                         THEN calculateFine(lns, cfgs, t, id)
                         ELSE << >>
           fineAmount == IF fineData # << >> THEN fineData[1].amount ELSE 0
       IN [ fines |-> IF fineData # << >>
                      THEN UpsertFineOnReturn(fns, existing, fineData[1])
                      ELSE fns,
            loans |-> [lns EXCEPT ![id] = MarkReturned(@, returnDate, fineAmount)],
            books |-> IncrementAvailable(bks, issuedBook.book_id),
            resp  |-> Response("return", 200, "Book returned successfully") ]

\* POST /api/books
AddBook(bks, total_copies) ==
  Append(bks, [ total_copies     |-> total_copies,
                available_copies |-> total_copies,
                is_active        |-> TRUE ])

\* PUT /api/books/:id.  updateData is req.body: total_copies and
\* available_copies are NoInput when the body does not give them; a body's
\* available_copies is written as it stands unless the handler computes one.
UpdateBook(bks, id, total_copies, available_copies) ==
  IF ~FindActiveBook(bks, id)
  THEN [books |-> bks, resp |-> Response("updateBook", 404, "Book not found")]
  ELSE
    LET book == bks[id]
        issuedCopies == book.total_copies - book.available_copies
        newTotal == IF total_copies = NoInput THEN book.total_copies ELSE total_copies
        newAvailable ==
          IF total_copies # NoInput /\ total_copies # book.total_copies
          THEN Max(0, total_copies - issuedCopies)
          ELSE IF available_copies # NoInput THEN available_copies
          ELSE book.available_copies
    IN [ books |-> [bks EXCEPT ![id].total_copies = newTotal,
                               ![id].available_copies = newAvailable],
         resp |-> Response("updateBook", 200, "Book updated successfully") ]

\* DELETE /api/books/:id
DeleteBook(bks, id) ==
  IF ~FindActiveBook(bks, id)
  THEN [books |-> bks, resp |-> Response("deleteBook", 404, "Book not found")]
  ELSE [ books |-> [bks EXCEPT ![id].is_active = FALSE],
         resp  |-> Response("deleteBook", 200, "Book deleted successfully") ]

\* -------------------------------------------------------------- the system
\* The tables are the state; a response is an output of its handler and is not
\* kept.
StudentRows == [is_active : BOOLEAN, max_books_allowed : 1..MaxAllowed]

Init ==
  /\ students \in [1..NumStudents -> StudentRows]
  /\ books = << >>
  /\ loans = << >>
  /\ fines = << >>
  /\ suggestions = << >>
  /\ fineConfigs = << >>
  /\ now = 0
  /\ inflight = << >>

\* time passes
Tick ==
  /\ now < MaxNow
  /\ now' = now + 1
  /\ UNCHANGED <<students, books, loans, fines, fineConfigs, inflight, suggestions>>

\* a row is written to fine_configs
CreateFineConfig ==
  /\ Len(fineConfigs) < MaxConfigs
  /\ \E rate \in RateInputs, grace \in GraceInputs, cap \in CapInputs,
        active \in ActiveInputs :
       fineConfigs' = Append(fineConfigs,
                             [ fine_rate_per_day |-> rate,
                               grace_period_days |-> grace,
                               max_fine_amount   |-> cap,
                               is_active         |-> active ])
  /\ UNCHANGED <<students, books, loans, fines, now, inflight, suggestions>>

AddBookAction ==
  /\ Len(books) < NumBooks
  /\ \E total_copies \in 1..MaxCopies : books' = AddBook(books, total_copies)
  /\ UNCHANGED <<students, loans, fines, fineConfigs, now, inflight, suggestions>>

\* PUT /api/books/:id with a body that gives no available_copies
UpdateBookAction ==
  /\ \E id \in BookIdInputs, total_copies \in {NoInput} \cup 1..MaxCopies :
       books' = UpdateBook(books, id, total_copies, NoInput).books
  /\ UNCHANGED <<students, loans, fines, fineConfigs, now, inflight, suggestions>>

DeleteBookAction ==
  /\ \E id \in BookIdInputs : books' = DeleteBook(books, id).books
  /\ UNCHANGED <<students, loans, fines, fineConfigs, now, inflight, suggestions>>

IssueAction ==
  /\ \E student_id \in StudentIdInputs, book_id \in BookIdInputs,
        due_date \in DayInputs :
       LET r == IssueBook(students, books, loans, student_id, book_id, due_date)
       IN /\ Len(r.loans) <= MaxLoans
          /\ books' = r.books
          /\ loans' = r.loans
  /\ UNCHANGED <<students, fines, fineConfigs, now, inflight, suggestions>>

\* the row Fine.findOne({ issued_book_id }) may return: any matching row, as the
\* query gives no order; 0 when none matches
FindOneFineOfLoan(fns, id) ==
  IF FinesOfLoan(fns, id) = {} THEN {0} ELSE FinesOfLoan(fns, id)

ReturnAction ==
  /\ \E id \in LoanIdInputs, return_date \in {NoInput} \cup InstantInputs :
       \E existing \in FindOneFineOfLoan(fines, id) :
         LET r == ReturnBook(books, loans, fines, fineConfigs, now, id,
                             return_date, existing)
         IN /\ books' = r.books
            /\ loans' = r.loans
            /\ fines' = r.fines
  /\ UNCHANGED <<students, fineConfigs, now, inflight, suggestions>>

\* POST /api/fines/generate and the daily cron job
GenerateFinesAction ==
  /\ LET r == generateFinesForOverdueBooks(loans, fines, fineConfigs, now)
     IN /\ loans' = r.loans
        /\ fines' = r.fines
  /\ UNCHANGED <<students, books, fineConfigs, now, inflight, suggestions>>

\* payFine's paidDate: the body's paid_date, new Date() when it gives none
PaidDate(t, paid_date) == IF paid_date = NoInput THEN DateOnly(t) ELSE paid_date

\* POST /api/fines/:id/pay
PayFineAction ==
  /\ \E id \in FineIdInputs, paid_date \in {NoInput} \cup DayInputs :
       fines' = payFine(fines, id, PaidDate(now, paid_date)).fines
  /\ UNCHANGED <<students, books, loans, fineConfigs, now, inflight, suggestions>>

\* POST /api/fines/:id/waive
WaiveFineAction ==
  /\ \E id \in FineIdInputs : fines' = waiveFine(fines, id).fines
  /\ UNCHANGED <<students, books, loans, fineConfigs, now, inflight, suggestions>>

Next ==
  \/ Tick
  \/ CreateFineConfig
  \/ AddBookAction
  \/ UpdateBookAction
  \/ DeleteBookAction
  \/ IssueAction
  \/ ReturnAction
  \/ GenerateFinesAction
  \/ PayFineAction
  \/ WaiveFineAction

Spec == Init /\ [][Next]_vars

\* the system without catalog edits: loans, returns, fines and the clock only
NextCirculation ==
  \/ Tick
  \/ CreateFineConfig
  \/ AddBookAction
  \/ DeleteBookAction
  \/ IssueAction
  \/ ReturnAction
  \/ GenerateFinesAction
  \/ PayFineAction
  \/ WaiveFineAction

SpecCirculation == Init /\ [][NextCirculation]_vars

\* ------------------------------------------- loans running late, longer clock
\* Two loans of one student are already out (two books, each with its one copy
\* on loan), a fine policy may already be in force, and the clock runs over
\* several days.
LateMaxNow == 6

DefaultMaxBooksAllowed == 5

LateDueInputs     == 0..1
LateInstantInputs == 0..LateMaxNow
LatePolicyInputs  ==
  { [fine_rate_per_day |-> 2, grace_period_days |-> 1, max_fine_amount |-> NoCap],
    [fine_rate_per_day |-> 5, grace_period_days |-> 0, max_fine_amount |-> 7],
    [fine_rate_per_day |-> 5, grace_period_days |-> 2, max_fine_amount |-> 3] }

\* the fine_configs tables the late loans run under: no row, or one active row
LateFineConfigs ==
  { << >> } \cup
  { << [ fine_rate_per_day |-> c.fine_rate_per_day,
         grace_period_days |-> c.grace_period_days,
         max_fine_amount   |-> c.max_fine_amount,
         is_active         |-> TRUE ] >> : c \in LatePolicyInputs }

InitLate ==
  /\ students = [s \in 1..NumStudents |->
                   [is_active |-> TRUE, max_books_allowed |-> DefaultMaxBooksAllowed]]
  /\ books = [b \in 1..2 |->
                [total_copies |-> 1, available_copies |-> 0, is_active |-> TRUE]]
  /\ \E due1 \in LateDueInputs, due2 \in LateDueInputs :
        loans = << NewIssuedBook(1, 1, due1), NewIssuedBook(1, 2, due2) >>
  /\ fines = << >>
  /\ suggestions = << >>
  /\ fineConfigs \in LateFineConfigs
  /\ now = 0
  /\ inflight = << >>

\* time passes, up to LateMaxNow
TickLate ==
  /\ now < LateMaxNow
  /\ now' = now + 1
  /\ UNCHANGED <<students, books, loans, fines, fineConfigs, inflight, suggestions>>

\* PUT /api/issued-books/:id/return with a return_date anywhere on the longer clock
ReturnLateAction ==
  /\ \E id \in LoanIdInputs, return_date \in {NoInput} \cup LateInstantInputs :
       \E existing \in FindOneFineOfLoan(fines, id) :
         LET r == ReturnBook(books, loans, fines, fineConfigs, now, id,
                             return_date, existing)
         IN /\ books' = r.books
            /\ loans' = r.loans
            /\ fines' = r.fines
  /\ UNCHANGED <<students, fineConfigs, now, inflight, suggestions>>

NextLate ==
  \/ TickLate
  \/ ReturnLateAction
  \/ GenerateFinesAction
  \/ PayFineAction
  \/ WaiveFineAction

SpecLate == InitLate /\ [][NextLate]_vars

\* ------------------------------------------------------ store accesses fail
\* A store access of a handler may throw (connection lost, constraint, ...).
\* No handler opens a transaction: the rows written before the throw stay.
IssueFaultInputs  == {"create", "decrement"}
ReturnFaultInputs == {"upsertFine", "markReturned", "increment"}
SweepFaultInputs  == {"calculateFine", "upsertFine", "markOverdue"}

\* POST /api/issued-books/issue when the write named by fault throws: the catch
\* block answers 500
IssueBookFaulting(sts, bks, lns, student_id, book_id, due_date, fault) ==
  LET whole == IssueBook(sts, bks, lns, student_id, book_id, due_date)
  IN IF whole.resp.status # 201 THEN whole
     ELSE [ loans |-> IF fault = "create" THEN lns ELSE whole.loans,
            books |-> bks,
            resp  |-> Response("issue", 500, "Server error") ]

\* PUT /api/issued-books/:id/return when the write named by fault throws;
\* "upsertFine" stands for every throw before the loan row is written
ReturnBookFaulting(bks, lns, fns, cfgs, t, id, return_date, existing, fault) ==
  LET whole == ReturnBook(bks, lns, fns, cfgs, t, id, return_date, existing)
  IN IF whole.resp.status # 200 THEN whole
     ELSE [ fines |-> IF fault = "upsertFine" THEN fns ELSE whole.fines,
            loans |-> IF fault = "increment" THEN whole.loans ELSE lns,
            books |-> bks,
            resp  |-> Response("return", 500, "Server error") ]

\* the store accesses of the sweep's loop body that can throw for loan id
SweepFaultsOf(acc, cfgs, t, id) ==
  IF calculateFine(acc.loans, cfgs, t, id) = << >>
  THEN {"calculateFine"}
  ELSE SweepFaultInputs

\* the sweep's loop body for loan id when the access named by fault throws
ProcessOverdueBookFaulting(acc, cfgs, t, id, fault) ==
  IF fault = "markOverdue"
  THEN [ProcessOverdueBook(acc, cfgs, t, id) EXCEPT !.loans = acc.loans]
  ELSE acc

\* generateFinesForOverdueBooks() when an access for the k-th selected loan
\* throws: the loop has no try/catch, the error leaves the loop and the method
generateFinesFaulting(lns, fns, cfgs, t, k, fault) ==
  LET ids    == OverdueBooks(lns, t)
      before == SweepFrom([loans |-> lns, fines |-> fns, results |-> << >>],
                          cfgs, t, SubSeq(ids, 1, k - 1), 1)
      at     == ProcessOverdueBookFaulting(before, cfgs, t, ids[k], fault)
  IN [ loans |-> at.loans, fines |-> at.fines, results |-> << >>,
       thrown |-> TRUE ]

InitFaults ==
  /\ students = [s \in 1..NumStudents |->
                   [is_active |-> TRUE, max_books_allowed |-> DefaultMaxBooksAllowed]]
  /\ books = [b \in 1..NumBooks |->
                [total_copies |-> 1, available_copies |-> 1, is_active |-> TRUE]]
  /\ loans = << >>
  /\ fines = << >>
  /\ suggestions = << >>
  /\ fineConfigs = << >>
  /\ now = 0
  /\ inflight = << >>

IssueFaultAction ==
  /\ \E student_id \in StudentIdInputs, book_id \in BookIdInputs,
        due_date \in DayInputs, fault \in IssueFaultInputs :
       LET r == IssueBookFaulting(students, books, loans, student_id, book_id,
                                  due_date, fault)
       IN /\ Len(r.loans) <= MaxLoans
          /\ books' = r.books
          /\ loans' = r.loans
  /\ UNCHANGED <<students, fines, fineConfigs, now, inflight, suggestions>>

ReturnFaultAction ==
  /\ \E id \in LoanIdInputs, return_date \in {NoInput} \cup InstantInputs,
        fault \in ReturnFaultInputs :
       \E existing \in FindOneFineOfLoan(fines, id) :
         LET r == ReturnBookFaulting(books, loans, fines, fineConfigs, now, id,
                                     return_date, existing, fault)
         IN /\ books' = r.books
            /\ loans' = r.loans
            /\ fines' = r.fines
  /\ UNCHANGED <<students, fineConfigs, now, inflight, suggestions>>

GenerateFinesFaultAction ==
  /\ \E k \in 1..Len(OverdueBooks(loans, now)) :
       \E fault \in SweepFaultsOf([loans |-> loans, fines |-> fines,
                                   results |-> << >>],
                                  fineConfigs, now, OverdueBooks(loans, now)[k]) :
         LET r == generateFinesFaulting(loans, fines, fineConfigs, now, k, fault)
         IN /\ loans' = r.loans
            /\ fines' = r.fines
  /\ UNCHANGED <<students, books, fineConfigs, now, inflight, suggestions>>

NextFaults ==
  \/ Tick
  \/ IssueAction
  \/ IssueFaultAction
  \/ ReturnAction
  \/ ReturnFaultAction
  \/ GenerateFinesAction
  \/ GenerateFinesFaultAction

SpecFaults == InitFaults /\ [][NextFaults]_vars

\* ------------------------------------------- two requests in flight at once
\* Every await of a handler is a separate store access; between two accesses of
\* one request the other request may run.  A request in flight keeps what it
\* has read so far: the loan it works on (id), the loans still to visit
\* (queue), the computed fine (fineData, << >> for null), the fine row it found
\* (existing, 0 for none) and the return date.
RaceLoan == 1

Request(op, pc) ==
  [ op |-> op, pc |-> pc, id |-> 0, queue |-> << >>, fineData |-> << >>,
    existing |-> 0, returnDate |-> NoInput ]

Slots == DOMAIN inflight

\* one loan out and past or before its due date, and two requests arriving:
\* the sweep (cron or POST /generate) with a second sweep or with a Return of
\* the loan
InitRace ==
  /\ students = [s \in 1..NumStudents |->
                   [is_active |-> TRUE, max_books_allowed |-> DefaultMaxBooksAllowed]]
  /\ books = << [total_copies |-> 1, available_copies |-> 0, is_active |-> TRUE] >>
  /\ \E due \in LateDueInputs : loans = << NewIssuedBook(1, 1, due) >>
  /\ fines = << >>
  /\ suggestions = << >>
  /\ fineConfigs \in LateFineConfigs
  /\ now \in LateInstantInputs
  /\ inflight \in { << Request("sweep", "findAll"), Request("sweep", "findAll") >>,
                     << Request("sweep", "findAll"), Request("return", "findByPk") >> }

\* the sweep moves on to the next loan of its list
SweepAdvance(req) ==
  IF req.queue = << >>
  THEN [req EXCEPT !.pc = "done", !.id = 0, !.fineData = << >>, !.existing = 0]
  ELSE [req EXCEPT !.pc = "calculateFine", !.id = Head(req.queue),
                   !.queue = Tail(req.queue), !.fineData = << >>, !.existing = 0]

\* IssuedBook.findAll({ status: 'issued', due_date < new Date() })
SweepFindAll(r) ==
  /\ inflight[r].op = "sweep" /\ inflight[r].pc = "findAll"
  /\ inflight' = [inflight EXCEPT
                    ![r] = SweepAdvance([@ EXCEPT !.queue = OverdueBooks(loans, now)])]
  /\ UNCHANGED <<students, books, loans, fines, fineConfigs, now, suggestions>>

\* const fineData = await this.calculateFine(book.id)
SweepCalculateFine(r) ==
  /\ inflight[r].op = "sweep" /\ inflight[r].pc = "calculateFine"
  /\ LET fineData == calculateFine(loans, fineConfigs, now, inflight[r].id)
     IN inflight' = [inflight EXCEPT
                       ![r] = IF fineData = << >> THEN SweepAdvance(@)
                              ELSE [@ EXCEPT !.pc = "findOne",
                                             !.fineData = fineData]]
  /\ UNCHANGED <<students, books, loans, fines, fineConfigs, now, suggestions>>

\* Fine.findOne({ where: { issued_book_id, status: 'pending' } })
SweepFindOne(r) ==
  /\ inflight[r].op = "sweep" /\ inflight[r].pc = "findOne"
  /\ LET pending == PendingFinesOfLoan(fines, inflight[r].id)
     IN inflight' = [inflight EXCEPT
                       ![r].pc = "upsertFine",
                       ![r].existing =
                          IF pending = {} THEN 0
                          ELSE CHOOSE x \in pending : \A y \in pending : x <= y]
  /\ UNCHANGED <<students, books, loans, fines, fineConfigs, now, suggestions>>

\* existingFine.update(fineData) or Fine.create(fineData)
SweepUpsertFine(r) ==
  /\ inflight[r].op = "sweep" /\ inflight[r].pc = "upsertFine"
  /\ fines' = IF inflight[r].existing # 0
               THEN [fines EXCEPT ![inflight[r].existing] =
                       UpdateFineFromData(@, inflight[r].fineData[1])]
               ELSE Append(fines, NewFine(inflight[r].fineData[1]))
  /\ inflight' = [inflight EXCEPT ![r].pc = "markOverdue"]
  /\ UNCHANGED <<students, books, loans, fineConfigs, now, suggestions>>

\* book.update({ status: 'overdue' })
SweepMarkOverdue(r) ==
  /\ inflight[r].op = "sweep" /\ inflight[r].pc = "markOverdue"
  /\ loans' = [loans EXCEPT ![inflight[r].id].status = "overdue"]
  /\ inflight' = [inflight EXCEPT ![r] = SweepAdvance(@)]
  /\ UNCHANGED <<students, books, fines, fineConfigs, now, suggestions>>

\* IssuedBook.findByPk(req.params.id) and the checks on the row; the request
\* gives no return_date, so returnDate is new Date()
ReturnFindByPk(r) ==
  /\ inflight[r].op = "return" /\ inflight[r].pc = "findByPk"
  /\ inflight' = [inflight EXCEPT
                    ![r] = IF loans[RaceLoan].status = "returned"
                           THEN [@ EXCEPT !.pc = "done"]
                           ELSE [@ EXCEPT
                                   !.id = RaceLoan,
                                   !.returnDate = now,
                                   !.pc = IF now > DayStart(loans[RaceLoan].due_date)
                                          THEN "calculateFine"
                                          ELSE "markReturned"]]
  /\ UNCHANGED <<students, books, loans, fines, fineConfigs, now, suggestions>>

\* const fineData = await FineService.calculateFine(issuedBook.id)
ReturnCalculateFine(r) ==
  /\ inflight[r].op = "return" /\ inflight[r].pc = "calculateFine"
  /\ LET fineData == calculateFine(loans, fineConfigs, now, inflight[r].id)
     IN inflight' = [inflight EXCEPT
                       ![r].fineData = fineData,
                       ![r].pc = IF fineData = << >> THEN "markReturned"
                                                     ELSE "findOne"]
  /\ UNCHANGED <<students, books, loans, fines, fineConfigs, now, suggestions>>

\* Fine.findOne({ where: { issued_book_id } })
ReturnFindOne(r) ==
  /\ inflight[r].op = "return" /\ inflight[r].pc = "findOne"
  /\ \E existing \in FindOneFineOfLoan(fines, inflight[r].id) :
       inflight' = [inflight EXCEPT ![r].pc = "upsertFine",
                                    ![r].existing = existing]
  /\ UNCHANGED <<students, books, loans, fines, fineConfigs, now, suggestions>>

\* existingFine.update({ amount, days_overdue, status }) or Fine.create(fineData)
ReturnUpsertFine(r) ==
  /\ inflight[r].op = "return" /\ inflight[r].pc = "upsertFine"
  /\ fines' = UpsertFineOnReturn(fines, inflight[r].existing,
                                  inflight[r].fineData[1])
  /\ inflight' = [inflight EXCEPT ![r].pc = "markReturned"]
  /\ UNCHANGED <<students, books, loans, fineConfigs, now, suggestions>>

\* issuedBook.update({ return_date, status: 'returned', fine_amount })
ReturnMarkReturned(r) ==
  /\ inflight[r].op = "return" /\ inflight[r].pc = "markReturned"
  /\ loans' = [loans EXCEPT ![inflight[r].id] =
                 MarkReturned(@, inflight[r].returnDate,
                              IF inflight[r].fineData # << >>
                              THEN inflight[r].fineData[1].amount ELSE 0)]
  /\ inflight' = [inflight EXCEPT ![r].pc = "increment"]
  /\ UNCHANGED <<students, books, fines, fineConfigs, now, suggestions>>

\* Book.increment('available_copies', { where: { id: issuedBook.book_id } })
ReturnIncrement(r) ==
  /\ inflight[r].op = "return" /\ inflight[r].pc = "increment"
  /\ books' = IncrementAvailable(books, loans[inflight[r].id].book_id)
  /\ inflight' = [inflight EXCEPT ![r].pc = "done"]
  /\ UNCHANGED <<students, loans, fines, fineConfigs, now, suggestions>>

NextRace ==
  \/ \E r \in Slots : SweepFindAll(r)
  \/ \E r \in Slots : SweepCalculateFine(r)
  \/ \E r \in Slots : SweepFindOne(r)
  \/ \E r \in Slots : SweepUpsertFine(r)
  \/ \E r \in Slots : SweepMarkOverdue(r)
  \/ \E r \in Slots : ReturnFindByPk(r)
  \/ \E r \in Slots : ReturnCalculateFine(r)
  \/ \E r \in Slots : ReturnFindOne(r)
  \/ \E r \in Slots : ReturnUpsertFine(r)
  \/ \E r \in Slots : ReturnMarkReturned(r)
  \/ \E r \in Slots : ReturnIncrement(r)

SpecRace == InitRace /\ [][NextRace]_vars

\* --------------------------------------------- the fine policy changes
\* One loan is out, no fine_configs row exists yet; rows are then written
\* (active or not) while the clock runs over several days.
LateMaxConfigs == 2

InitPolicy ==
  /\ students = [s \in 1..NumStudents |->
                   [is_active |-> TRUE, max_books_allowed |-> DefaultMaxBooksAllowed]]
  /\ books = << [total_copies |-> 1, available_copies |-> 0, is_active |-> TRUE] >>
  /\ \E due \in LateDueInputs : loans = << NewIssuedBook(1, 1, due) >>
  /\ fines = << >>
  /\ suggestions = << >>
  /\ fineConfigs = << >>
  /\ now = 0
  /\ inflight = << >>

\* a row is written to fine_configs: any policy, active or not
CreateLateFineConfig ==
  /\ Len(fineConfigs) < LateMaxConfigs
  /\ \E c \in LatePolicyInputs, active \in BOOLEAN :
       fineConfigs' = Append(fineConfigs,
                             [ fine_rate_per_day |-> c.fine_rate_per_day,
                               grace_period_days |-> c.grace_period_days,
                               max_fine_amount   |-> c.max_fine_amount,
                               is_active         |-> active ])
  /\ UNCHANGED <<students, books, loans, fines, now, inflight, suggestions>>

NextPolicy ==
  \/ TickLate
  \/ CreateLateFineConfig
  \/ ReturnLateAction
  \/ GenerateFinesAction
  \/ PayFineAction
  \/ WaiveFineAction

SpecPolicy == InitPolicy /\ [][NextPolicy]_vars

\* ------------------------------------------------- the daily job over time
\* The scheduler runs generateFinesForOverdueBooks every day inside a
\* try/catch: a run that throws is logged and the next day's run starts
\* afresh.  One loan is out under a fixed policy.
DailyMaxFines == 2

InitDaily ==
  /\ students = [s \in 1..NumStudents |->
                   [is_active |-> TRUE, max_books_allowed |-> DefaultMaxBooksAllowed]]
  /\ books = << [total_copies |-> 1, available_copies |-> 0, is_active |-> TRUE] >>
  /\ \E due \in LateDueInputs : loans = << NewIssuedBook(1, 1, due) >>
  /\ fines = << >>
  /\ suggestions = << >>
  /\ fineConfigs \in LateFineConfigs
  /\ now = 0
  /\ inflight = << >>

\* the cron callback when the run throws: the catch block logs the error, the
\* writes made before the throw stay
FailedDailyRun ==
  /\ Len(fines) < DailyMaxFines
  /\ GenerateFinesFaultAction

\* the cron callback when the run completes
DailyRun == GenerateFinesAction

NextDaily ==
  \/ TickLate
  \/ ReturnLateAction
  \/ DailyRun
  \/ FailedDailyRun
  \/ PayFineAction
  \/ WaiveFineAction

\* cron.schedule('0 0 * * *'): a run that can change the store is not put off
\* for ever
SpecDaily == InitDaily /\ [][NextDaily]_vars /\ WF_vars(DailyRun)

\* ------------------------------------------ two Issue requests in flight
\* POST /api/issued-books/issue awaits six store accesses in a row and holds no
\* transaction or lock; a request in flight keeps the student's limit and the
\* book row it has read.  status is 0 while the request runs.
IssueRequest(student_id, book_id, due_date) ==
  [ op |-> "issue", pc |-> "findStudent", student_id |-> student_id,
    book_id |-> book_id, due_date |-> due_date, max_books_allowed |-> 0,
    available_copies |-> 0, status |-> 0 ]

\* the request answers and ends
IssueAnswer(req, status) == [req EXCEPT !.pc = "done", !.status = status]

InitIssueRace ==
  /\ students \in [1..NumStudents ->
                     [is_active : {TRUE}, max_books_allowed : 1..(MaxAllowed + 1)]]
  /\ books \in [1..NumBooks ->
                  {bk \in [total_copies : 1..MaxCopies,
                           available_copies : 0..MaxCopies, is_active : {TRUE}] :
                      bk.available_copies <= bk.total_copies}]
  /\ loans = << >>
  /\ fines = << >>
  /\ suggestions = << >>
  /\ fineConfigs = << >>
  /\ now = 0
  /\ \E s1 \in StudentIdInputs, s2 \in StudentIdInputs,
        b1 \in BookIdInputs, b2 \in BookIdInputs, due \in DayInputs :
        inflight = << IssueRequest(s1, b1, due), IssueRequest(s2, b2, due) >>

\* Student.findOne({ where: { id: student_id, is_active: true } })
IssueFindStudent(r) ==
  /\ inflight[r].op = "issue" /\ inflight[r].pc = "findStudent"
  /\ inflight' = [inflight EXCEPT
                    ![r] = IF ~FindActiveStudent(students, inflight[r].student_id)
                           THEN IssueAnswer(@, 400)
                           ELSE [@ EXCEPT !.pc = "findBook",
                                          !.max_books_allowed =
                                             students[inflight[r].student_id].max_books_allowed]]
  /\ UNCHANGED <<students, books, loans, fines, fineConfigs, now, suggestions>>

\* Book.findOne({ where: { id: book_id, is_active: true } }) and the check of
\* the available_copies it read
IssueFindBook(r) ==
  /\ inflight[r].op = "issue" /\ inflight[r].pc = "findBook"
  /\ inflight' = [inflight EXCEPT
                    ![r] = IF ~FindActiveBook(books, inflight[r].book_id)
                             THEN IssueAnswer(@, 400)
                           ELSE IF books[inflight[r].book_id].available_copies <= 0
                             THEN IssueAnswer(@, 400)
                           ELSE [@ EXCEPT !.pc = "findExisting",
                                          !.available_copies =
                                             books[inflight[r].book_id].available_copies]]
  /\ UNCHANGED <<students, books, loans, fines, fineConfigs, now, suggestions>>

\* IssuedBook.findOne({ where: { student_id, book_id, status: 'issued' } })
IssueFindExisting(r) ==
  /\ inflight[r].op = "issue" /\ inflight[r].pc = "findExisting"
  /\ inflight' = [inflight EXCEPT
                    ![r] = IF ExistingIssue(loans, inflight[r].student_id, inflight[r].book_id)
                           THEN IssueAnswer(@, 400)
                           ELSE [@ EXCEPT !.pc = "count"]]
  /\ UNCHANGED <<students, books, loans, fines, fineConfigs, now, suggestions>>

\* IssuedBook.count({ where: { student_id, status: 'issued' } }) against the
\* limit read with the student
IssueCount(r) ==
  /\ inflight[r].op = "issue" /\ inflight[r].pc = "count"
  /\ inflight' = [inflight EXCEPT
                    ![r] = IF CurrentIssued(loans, inflight[r].student_id)
                                >= inflight[r].max_books_allowed
                           THEN IssueAnswer(@, 400)
                           ELSE [@ EXCEPT !.pc = "create"]]
  /\ UNCHANGED <<students, books, loans, fines, fineConfigs, now, suggestions>>

\* IssuedBook.create({ student_id, book_id, librarian_id, due_date, notes })
IssueCreate(r) ==
  /\ inflight[r].op = "issue" /\ inflight[r].pc = "create"
  /\ loans' = Append(loans, NewIssuedBook(inflight[r].student_id,
                                          inflight[r].book_id, inflight[r].due_date))
  /\ inflight' = [inflight EXCEPT ![r].pc = "updateBook"]
  /\ UNCHANGED <<students, books, fines, fineConfigs, now, suggestions>>

\* the counter decremented in the store, whatever the request read
IssueWriteAvailable_InPlace(bks, book_id, available_copies) ==
  [bks EXCEPT ![book_id].available_copies = bks[book_id].available_copies - 1]

\* book.update({ available_copies: book.available_copies - 1 }): book is the
\* row the request read at findBook
IssueWriteAvailable(bks, book_id, available_copies) ==
  [bks EXCEPT ![book_id].available_copies = available_copies - 1]

\* await book.update(...), then the 201 answer
IssueUpdateBook(r) ==
  /\ inflight[r].op = "issue" /\ inflight[r].pc = "updateBook"
  /\ books' = IssueWriteAvailable(books, inflight[r].book_id,
                                  inflight[r].available_copies)
  /\ inflight' = [inflight EXCEPT ![r] = IssueAnswer(@, 201)]
  /\ UNCHANGED <<students, loans, fines, fineConfigs, now, suggestions>>

NextIssueRace ==
  \/ \E r \in Slots : IssueFindStudent(r)
  \/ \E r \in Slots : IssueFindBook(r)
  \/ \E r \in Slots : IssueFindExisting(r)
  \/ \E r \in Slots : IssueCount(r)
  \/ \E r \in Slots : IssueCreate(r)
  \/ \E r \in Slots : IssueUpdateBook(r)

SpecIssueRace == InitIssueRace /\ [][NextIssueRace]_vars

\* ---------------------------------------------------- the catalogue routes
\* Books are added, updated with any body and soft-deleted while copies go out
\* and come back; the clock stands still.
AvailableInputs == {NoInput} \cup 0..MaxCopies

\* PUT /api/books/:id with any body
UpdateBookBodyAction ==
  /\ \E id \in BookIdInputs, total_copies \in {NoInput} \cup 1..MaxCopies,
        available_copies \in AvailableInputs :
       books' = UpdateBook(books, id, total_copies, available_copies).books
  /\ UNCHANGED <<students, loans, fines, fineConfigs, now, inflight, suggestions>>

NextCatalogue ==
  \/ AddBookAction
  \/ UpdateBookBodyAction
  \/ DeleteBookAction
  \/ IssueAction
  \/ ReturnAction

SpecCatalogue == Init /\ [][NextCatalogue]_vars

\* ------------------------------------------------------- book suggestions
\* A suggested_books row: status, reviewed_by (0 for null), review_date,
\* review_notes (NoInput for null); destroyed marks a row deleted from the
\* table, whose id is not given out again.
MaxSuggestions == 2

SuggestionIdInputs == 1..(MaxSuggestions + 1)
LibrarianIdInputs  == 1..2
ReviewNotesInputs  == {NoInput, 1}

\* SuggestedBook.create({ student_id, title, author, isbn, publisher, category, reason })
NewSuggestedBook(student_id) ==
  [ student_id |-> student_id, status |-> "pending", reviewed_by |-> 0,
    review_date |-> NullDate, review_notes |-> NoInput, destroyed |-> FALSE ]

\* the look-up that takes a suggestion whatever its status
FindPendingSuggestion_AnyStatus(sgs, id) ==
  id \in DOMAIN sgs /\ ~sgs[id].destroyed

\* SuggestedBook.findOne({ where: { id, status: 'pending' } })
FindPendingSuggestion(sgs, id) ==
  id \in DOMAIN sgs /\ ~sgs[id].destroyed /\ sgs[id].status = "pending"

\* PUT /api/suggested-books/:id/review by librarian userId at instant t
ReviewSuggestion(sgs, t, id, status, review_notes, userId) ==
  IF ~FindPendingSuggestion(sgs, id)
  THEN [ suggestions |-> sgs,
         resp |-> Response("review", 404, "Suggestion not found or already reviewed") ]
  ELSE [ suggestions |-> [sgs EXCEPT ![id].status       = status,
                                     ![id].reviewed_by  = userId,
                                     ![id].review_date  = DateOnly(t),
                                     ![id].review_notes = review_notes],
         resp |-> Response("review", 200, "Suggestion reviewed successfully") ]

\* DELETE /api/suggested-books/:id by a student (own rows only) or a librarian
DeleteSuggestion(sgs, id, userRole, userId) ==
  IF id \notin DOMAIN sgs \/ sgs[id].destroyed
  THEN [ suggestions |-> sgs, resp |-> Response("deleteSuggestion", 404, "Suggestion not found") ]
  ELSE IF userRole = "student" /\ sgs[id].student_id # userId
  THEN [ suggestions |-> sgs, resp |-> Response("deleteSuggestion", 403, "Access denied") ]
  ELSE [ suggestions |-> [sgs EXCEPT ![id].destroyed = TRUE],
         resp |-> Response("deleteSuggestion", 200, "Suggestion deleted successfully") ]

\* POST /api/suggested-books
SuggestBookAction ==
  /\ Len(suggestions) < MaxSuggestions
  /\ \E student_id \in 1..NumStudents :
       suggestions' = Append(suggestions, NewSuggestedBook(student_id))
  /\ UNCHANGED <<students, books, loans, fines, fineConfigs, now, inflight>>

ReviewSuggestionAction ==
  /\ \E id \in SuggestionIdInputs, status \in {"approved", "rejected"},
        review_notes \in ReviewNotesInputs, userId \in LibrarianIdInputs :
       suggestions' = ReviewSuggestion(suggestions, now, id, status,
                                       review_notes, userId).suggestions
  /\ UNCHANGED <<students, books, loans, fines, fineConfigs, now, inflight>>

DeleteSuggestionAction ==
  /\ \E id \in SuggestionIdInputs, userRole \in {"student", "librarian"},
        userId \in StudentIdInputs :
       suggestions' = DeleteSuggestion(suggestions, id, userRole, userId).suggestions
  /\ UNCHANGED <<students, books, loans, fines, fineConfigs, now, inflight>>

NextSuggestions ==
  \/ Tick
  \/ SuggestBookAction
  \/ ReviewSuggestionAction
  \/ DeleteSuggestionAction

SpecSuggestions == Init /\ [][NextSuggestions]_vars

\* ------------------------------------------------------------------ claims
\* the loans of book b that are not returned
NonReturnedLoansOfBook(lns, b) ==
  {i \in DOMAIN lns : lns[i].book_id = b /\ lns[i].status # "returned"}

\* the loans of student s that are not returned
NonReturnedLoansOfStudent(lns, s) ==
  {i \in DOMAIN lns : lns[i].student_id = s /\ lns[i].status # "returned"}

\* C1: after any sequence of successful or failed Issue and Return requests,
\* each run to completion, a book's available_copies equals its total_copies
\* minus the number of its loans that are not returned.
C1_AvailableIsTotalMinusOpenLoans ==
  \A b \in DOMAIN books :
     books[b].available_copies =
       books[b].total_copies - Cardinality(NonReturnedLoansOfBook(loans, b))

\* a book with a loan still out and a loan already returned
C1_Witness ==
  \E b \in DOMAIN books :
     /\ NonReturnedLoansOfBook(loans, b) # {}
     /\ \E i \in DOMAIN loans : loans[i].book_id = b /\ loans[i].status = "returned"

\* C2: in every reachable state, for every book,
\* 0 <= available_copies <= total_copies.
C2_AvailableWithinTotal ==
  \A b \in DOMAIN books :
     /\ 0 <= books[b].available_copies
     /\ books[b].available_copies <= books[b].total_copies

\* C3: in every reachable state every loan has at most one Fine row with
\* status pending.
C3_AtMostOnePendingFinePerLoan ==
  \A l \in DOMAIN loans : Cardinality(PendingFinesOfLoan(fines, l)) <= 1

\* a returned loan whose fine the sweep created and the return recomputed:
\* the loan is returned, was overdue at its return, and has its one pending fine
C3_Witness ==
  \E l \in DOMAIN loans :
     /\ loans[l].status = "returned"
     /\ loans[l].fine_amount > 0
     /\ Cardinality(PendingFinesOfLoan(fines, l)) = 1
     /\ Cardinality(FinesOfLoan(fines, l)) = 1

\* the pending rows of a fines table, each with its id
PendingFineRows(fns) ==
  {<<f, fns[f]>> : f \in {x \in DOMAIN fns : fns[x].status = "pending"}}

\* the sum of the amounts of the first n rows of a fines table
RECURSIVE SumOfAmounts(_, _)
SumOfAmounts(fns, n) ==
  IF n = 0 THEN 0 ELSE fns[n].amount + SumOfAmounts(fns, n - 1)

\* the tables after one sweep at the current instant
AfterOneSweep == generateFinesForOverdueBooks(loans, fines, fineConfigs, now)

\* the tables after a second sweep following it at once
AfterTwoSweeps ==
  generateFinesForOverdueBooks(AfterOneSweep.loans, AfterOneSweep.fines,
                               fineConfigs, now)

\* C4: a second generateFinesForOverdueBooks right after a first, with no other
\* request and no clock change between them, leaves the same pending Fine rows
\* (none duplicated for a loan) and the same sum of fine amounts.
C4_SecondSweepChangesNothing ==
  /\ PendingFineRows(AfterTwoSweeps.fines) = PendingFineRows(AfterOneSweep.fines)
  /\ \A l \in DOMAIN loans :
        Cardinality(PendingFinesOfLoan(AfterTwoSweeps.fines, l)) <= 1
  /\ SumOfAmounts(AfterTwoSweeps.fines, Len(AfterTwoSweeps.fines)) =
       SumOfAmounts(AfterOneSweep.fines, Len(AfterOneSweep.fines))

\* a state in which the first sweep creates a fine
C4_Witness ==
  /\ AfterOneSweep.results # << >>
  /\ PendingFineRows(AfterOneSweep.fines) # PendingFineRows(fines)

\* C5: in every reachable state there is at most one loan that is not returned
\* for any (student, book) pair.
C5_OneOpenLoanPerStudentAndBook ==
  \A i, j \in DOMAIN loans :
     ( /\ loans[i].student_id = loans[j].student_id
       /\ loans[i].book_id = loans[j].book_id
       /\ loans[i].status # "returned"
       /\ loans[j].status # "returned" ) => i = j

\* C6: in every reachable state a student's loans that are not returned number
\* at most the student's max_books_allowed.
C6_OpenLoansWithinLimit ==
  \A s \in DOMAIN students :
     Cardinality(NonReturnedLoansOfStudent(loans, s)) <= students[s].max_books_allowed

\* C7: an Issue that fails (student missing or inactive, book missing or
\* inactive, no available copy, duplicate loan, limit reached) creates no Loan
\* row and changes no book's available_copies.
C7_FailedIssueChangesNothing ==
  \A student_id \in StudentIdInputs, book_id \in BookIdInputs, due_date \in DayInputs :
     LET r == IssueBook(students, books, loans, student_id, book_id, due_date)
     IN r.resp.status # 201 => (r.loans = loans /\ r.books = books)

\* a state in which one Issue fails on the limit, another on the duplicate loan
\* and another on the missing student
C7_Witness ==
  /\ \E s \in StudentIdInputs, b \in BookIdInputs :
        IssueBook(students, books, loans, s, b, 0).resp.message =
          "Student has reached maximum limit"
  /\ \E s \in StudentIdInputs, b \in BookIdInputs :
        IssueBook(students, books, loans, s, b, 0).resp.message =
          "Student has already issued this book"
  /\ \E s \in StudentIdInputs, b \in BookIdInputs :
        IssueBook(students, books, loans, s, b, 0).resp.message =
          "Student not found or inactive"

C9_PaidFineIsImmutable ==
  [][ \A f \in DOMAIN fines :
        fines[f].status = "paid" =>
          /\ fines'[f].status = "paid"
          /\ fines'[f].amount = fines[f].amount
          /\ fines'[f].days_overdue = fines[f].days_overdue
          /\ fines'[f].paid_date = fines[f].paid_date ]_vars

\* C10: once a Fine has status waived, no later request changes its status.
C10_WaivedFineIsTerminal ==
  [][ \A f \in DOMAIN fines :
        fines[f].status = "waived" => fines'[f].status = "waived" ]_vars

\* C11: payFine on a paid fine fails with "Fine already paid", waiveFine on a
\* paid fine fails with "Cannot waive paid fine", either call on a missing id
\* fails with "Fine not found"; in each failing case every Fine row is unchanged.
C11_FailedPayOrWaiveChangesNothing ==
  \A id \in FineIdInputs, paid_date \in {NoInput} \cup DayInputs :
     LET p == payFine(fines, id, PaidDate(now, paid_date))
         w == waiveFine(fines, id)
     IN /\ id \notin DOMAIN fines =>
             p.error = "Fine not found" /\ w.error = "Fine not found"
        /\ (id \in DOMAIN fines /\ fines[id].status = "paid") =>
             p.error = "Fine already paid" /\ w.error = "Cannot waive paid fine"
        /\ p.error # "" => p.fines = fines
        /\ w.error # "" => w.fines = fines

\* a paid fine whose paid_date differs from the one a new request would write,
\* beside an id no fine has
C11_Witness ==
  /\ \E id \in FineIdInputs : id \notin DOMAIN fines
  /\ \E id \in DOMAIN fines, paid_date \in DayInputs :
        fines[id].status = "paid" /\ fines[id].paid_date # paid_date

\* C12: Return on a loan whose status is already returned fails with "Book
\* already returned" and changes nothing: the loan's return_date and status,
\* every Fine row and the book's available_copies are unchanged.
C12_ReturnOfReturnedChangesNothing ==
  \A id \in DOMAIN loans, return_date \in {NoInput} \cup InstantInputs :
     \A existing \in FindOneFineOfLoan(fines, id) :
        LET r == ReturnBook(books, loans, fines, fineConfigs, now, id,
                            return_date, existing)
        IN loans[id].status = "returned" =>
             /\ r.resp.status = 400
             /\ r.resp.message = "Book already returned"
             /\ r.loans = loans
             /\ r.fines = fines
             /\ r.books = books

\* a returned loan that has a fine, its book with a copy still out
C12_Witness ==
  \E l \in DOMAIN loans :
     /\ loans[l].status = "returned"
     /\ FinesOfLoan(fines, l) # {}
     /\ books[loans[l].book_id].available_copies <
          books[loans[l].book_id].total_copies

\* the policy in force: the newest active fine_configs row, else rate 5 a day,
\* no grace, no cap
PolicyInForce(cfgs) ==
  LET active == {i \in DOMAIN cfgs : cfgs[i].is_active}
  IN IF active = {}
     THEN [rate |-> 5, grace |-> 0, capped |-> FALSE, cap |-> 0]
     ELSE LET c == cfgs[CHOOSE i \in active : \A j \in active : j <= i]
          IN [ rate   |-> c.fine_rate_per_day,
               grace  |-> c.grace_period_days,
               capped |-> c.max_fine_amount # NoCap,
               cap    |-> c.max_fine_amount ]

\* the whole days, each begun day counted, from the due date to an instant
\* after it
RawDays(due_date, evaluationDate) ==
  CHOOSE n \in 1..(evaluationDate + 1) :
     /\ n * TicksPerDay >= evaluationDate - DayStart(due_date)
     /\ (n - 1) * TicksPerDay < evaluationDate - DayStart(due_date)

\* the reference fine of a loan at an evaluation date: << >> for no fine, else
\* << [days_overdue, amount] >>
ReferenceFine(loan, cfgs, evaluationDate) ==
  IF evaluationDate <= DayStart(loan.due_date) THEN << >>
  ELSE
    LET policy == PolicyInForce(cfgs)
        raw    == RawDays(loan.due_date, evaluationDate)
        days   == IF raw > policy.grace THEN raw - policy.grace ELSE 0
        full   == days * policy.rate
    IN IF days = 0 THEN << >>
       ELSE << [ days_overdue |-> days,
                 amount |-> IF policy.capped /\ policy.cap < full
                            THEN policy.cap ELSE full ] >>

\* C13: for a Return with an explicit returnDate later than due_date, the fine
\* recorded for the loan is computed with returnDate as the evaluation date
\* (days_overdue = ceil(returnDate - due_date in days) - grace_period_days,
\* amount = days_overdue x rate, capped), whatever the wall-clock instant at
\* which the request is handled.
C13_ReturnFineUsesReturnDate ==
  \A id \in DOMAIN loans, return_date \in LateInstantInputs :
     \A existing \in FindOneFineOfLoan(fines, id) :
        LET r == ReturnBook(books, loans, fines, fineConfigs, now, id,
                            return_date, existing)
            expected == ReferenceFine(loans[id], fineConfigs, return_date)
        IN ( /\ loans[id].status # "returned"
             /\ return_date > DayStart(loans[id].due_date)
             /\ expected # << >> ) =>
             \E f \in FinesOfLoan(r.fines, id) :
                /\ r.fines[f].status = "pending"
                /\ r.fines[f].days_overdue = expected[1].days_overdue
                /\ r.fines[f].amount = expected[1].amount

\* C14: a Return whose returnDate is on or before due_date, or later than it
\* by no more than grace_period_days whole days, creates no Fine row and
\* modifies none, while the loan becomes returned and available_copies rises
\* by 1; with grace 0 a return one day after due_date gives days_overdue = 1.
C14_NoFineUpToGrace ==
  \A id \in DOMAIN loans, return_date \in {NoInput} \cup LateInstantInputs :
     \A existing \in FindOneFineOfLoan(fines, id) :
        LET r == ReturnBook(books, loans, fines, fineConfigs, now, id,
                            return_date, existing)
            returnDate == IF return_date # NoInput THEN return_date ELSE now
            dueDate == DayStart(loans[id].due_date)
            grace   == PolicyInForce(fineConfigs).grace
        IN loans[id].status # "returned" =>
             /\ ( \/ returnDate <= dueDate
                  \/ RawDays(loans[id].due_date, returnDate) <= grace ) =>
                  /\ r.fines = fines
                  /\ r.loans[id].status = "returned"
                  /\ r.books[loans[id].book_id].available_copies =
                       books[loans[id].book_id].available_copies + 1
             /\ (grace = 0 /\ returnDate = DayStart(loans[id].due_date + 1)) =>
                  \E f \in FinesOfLoan(r.fines, id) :
                     r.fines[f].status = "pending" /\ r.fines[f].days_overdue = 1

\* C15: for every loan that is not returned, every policy and every evaluation
\* date, calculateFine equals the reference: no fine if evaluationDate <=
\* due_date or max(0, rawDays - grace) = 0; otherwise amount =
\* min(daysOverdue x rate, cap) when a cap is set and daysOverdue x rate when
\* none is, so an amount never exceeds a configured max_fine_amount.
C15_CalculateFineIsReference ==
  \A id \in DOMAIN loans, evaluationDate \in LateInstantInputs :
     LET fineData == calculateFine(loans, fineConfigs, evaluationDate, id)
         expected == ReferenceFine(loans[id], fineConfigs, evaluationDate)
     IN loans[id].status # "returned" =>
          /\ (fineData = << >>) <=> (expected = << >>)
          /\ fineData # << >> =>
               /\ fineData[1].days_overdue = expected[1].days_overdue
               /\ fineData[1].amount = expected[1].amount
               /\ PolicyInForce(fineConfigs).capped =>
                    fineData[1].amount <= PolicyInForce(fineConfigs).cap

\* a fine the sweep or a return wrote at the cap, for days whose uncapped
\* amount lies above it, while a loan is still out
C15_Witness ==
  /\ PolicyInForce(fineConfigs).capped
  /\ \E l \in DOMAIN loans : loans[l].status # "returned"
  /\ \E f \in DOMAIN fines :
        /\ fines[f].amount = PolicyInForce(fineConfigs).cap
        /\ fines[f].days_overdue * fines[f].fine_rate_per_day >
             PolicyInForce(fineConfigs).cap

\* C16: after generateFinesForOverdueBooks completes, no loan remains with
\* status issued and due_date earlier than the sweep's date: every such loan,
\* also one still inside the grace period, has been set to overdue.
C16_SweepLeavesNoPastDueIssued ==
  \A l \in DOMAIN AfterOneSweep.loans :
     ~ ( /\ AfterOneSweep.loans[l].status = "issued"
         /\ DayStart(AfterOneSweep.loans[l].due_date) < now )

\* C20: after each sweep, every loan that is still not returned and is past
\* due beyond the grace period has a pending fine with the days_overdue and
\* amount calculateFine yields for that sweep's date; the fine of a loan an
\* earlier sweep marked overdue keeps growing on later days.  (Loans whose fine
\* was paid or waived are left aside.)
C20_PendingFineFollowsSweepDate ==
  \A l \in DOMAIN AfterOneSweep.loans :
     LET fineData == calculateFine(AfterOneSweep.loans, fineConfigs, now, l)
     IN ( /\ AfterOneSweep.loans[l].status # "returned"
          /\ fineData # << >>
          /\ FinesOfLoan(fines, l) = PendingFinesOfLoan(fines, l) ) =>
          \E f \in PendingFinesOfLoan(AfterOneSweep.fines, l) :
             /\ AfterOneSweep.fines[f].days_overdue = fineData[1].days_overdue
             /\ AfterOneSweep.fines[f].amount = fineData[1].amount

\* C17: if the processing of one loan faults inside
\* generateFinesForOverdueBooks, the sweep still processes every other selected
\* loan (its fine upserted, its status set to overdue) and the fault is
\* collected, not raised out of the sweep.  Stated for sweeps that select at
\* least two loans.
C17_SweepSurvivesOneFault ==
  \A k \in 1..Len(OverdueBooks(loans, now)) :
     \A fault \in SweepFaultsOf([loans |-> loans, fines |-> fines,
                                 results |-> << >>],
                                fineConfigs, now, OverdueBooks(loans, now)[k]) :
        LET ids == OverdueBooks(loans, now)
            r   == generateFinesFaulting(loans, fines, fineConfigs, now, k, fault)
        IN Len(ids) >= 2 =>
             /\ ~r.thrown
             /\ \A j \in 1..Len(ids) :
                   (j # k /\ calculateFine(loans, fineConfigs, now, ids[j]) # << >>) =>
                     /\ r.loans[ids[j]].status = "overdue"
                     /\ PendingFinesOfLoan(r.fines, ids[j]) # {}

\* C19: if a store write inside Issue or Return fails, the store is left as it
\* was before the call: no created Loan without its available_copies
\* decrement, no written Fine or returned loan without the available_copies
\* increment.
C19_FailedWriteLeavesStoreUnchanged ==
  /\ \A student_id \in StudentIdInputs, book_id \in BookIdInputs,
        due_date \in DayInputs, fault \in IssueFaultInputs :
        LET r == IssueBookFaulting(students, books, loans, student_id, book_id,
                                   due_date, fault)
        IN r.resp.status = 500 => (r.loans = loans /\ r.books = books)
  /\ \A id \in LoanIdInputs, return_date \in {NoInput} \cup InstantInputs,
        fault \in ReturnFaultInputs :
        \A existing \in FindOneFineOfLoan(fines, id) :
           LET r == ReturnBookFaulting(books, loans, fines, fineConfigs, now, id,
                                       return_date, existing, fault)
           IN r.resp.status = 500 =>
                (r.loans = loans /\ r.fines = fines /\ r.books = books)

\* both requests in flight have finished
RaceDone == inflight # << >> /\ \A r \in Slots : inflight[r].pc = "done"

\* the store the two requests started from
RaceStart ==
  [ loans |-> << NewIssuedBook(loans[RaceLoan].student_id, loans[RaceLoan].book_id,
                               loans[RaceLoan].due_date) >>,
    fines |-> << >>,
    books |-> << [total_copies |-> 1, available_copies |-> 0, is_active |-> TRUE] >> ]

\* the tables after a sweep run alone on a store
SweepAlone(store) ==
  LET r == generateFinesForOverdueBooks(store.loans, store.fines, fineConfigs, now)
  IN [loans |-> r.loans, fines |-> r.fines, books |-> store.books]

\* the tables a Return of the loan run alone on a store may leave
ReturnAlone(store) ==
  { LET r == ReturnBook(store.books, store.loans, store.fines, fineConfigs, now,
                        RaceLoan, NoInput, existing)
    IN [loans |-> r.loans, fines |-> r.fines, books |-> r.books] :
    existing \in FindOneFineOfLoan(store.fines, RaceLoan) }

\* the pending fines some sequential order of the two requests leaves
SequentialPendingFines ==
  IF \A r \in Slots : inflight[r].op = "sweep"
  THEN { PendingFineRows(SweepAlone(SweepAlone(RaceStart)).fines) }
  ELSE { PendingFineRows(st.fines) : st \in ReturnAlone(SweepAlone(RaceStart)) }
       \cup { PendingFineRows(SweepAlone(st).fines) : st \in ReturnAlone(RaceStart) }

\* C18: when the sweep runs interleaved at its store accesses with a Return of
\* the same loan or with a second sweep, every interleaving ends with at most
\* one pending Fine row for the loan and with the pending fines of some
\* sequential order of the two requests.
C18_RaceEndsAsSomeSequentialOrder ==
  RaceDone =>
    /\ Cardinality(PendingFinesOfLoan(fines, RaceLoan)) <= 1
    /\ PendingFineRows(fines) \in SequentialPendingFines

\* the fine_configs rows a second store may hold: each policy, active or not
OtherConfigRows ==
  { [ fine_rate_per_day |-> c.fine_rate_per_day,
      grace_period_days |-> c.grace_period_days,
      max_fine_amount   |-> c.max_fine_amount,
      is_active         |-> a ] : c \in LatePolicyInputs, a \in BOOLEAN }

\* the fine_configs tables of up to two rows that resolve to the same policy
SamePolicyConfigs(cfgs) ==
  { c2 \in { << >> } \cup { <<x>> : x \in OtherConfigRows }
              \cup { <<x, y>> : x \in OtherConfigRows, y \in OtherConfigRows } :
      CurrentFineConfig(c2) = CurrentFineConfig(cfgs) }

\* the issued_books tables that hold the same row under id and differ elsewhere:
\* every other row altered, and one more row added
SameLoanTables(lns, id) ==
  { [i \in DOMAIN lns |-> IF i = id THEN lns[i]
                          ELSE [lns[i] EXCEPT !.status = st, !.due_date = due]]
      : st \in {"issued", "overdue", "returned"}, due \in LateDueInputs }
  \cup { Append(lns, NewIssuedBook(1, 1, due)) : due \in LateDueInputs }

\* C21: calculateFine is deterministic in (loan, policy in force, evaluation
\* date): two stores that agree on the loan record and on the resolved policy
\* give the same result at the same evaluation date (null, or the same amount,
\* days_overdue and rate), whatever else the stores hold.
C21_CalculateFineDependsOnLoanPolicyDate ==
  \A id \in DOMAIN loans, evaluationDate \in LateInstantInputs :
     \A lns2 \in SameLoanTables(loans, id), cfgs2 \in SamePolicyConfigs(fineConfigs) :
        calculateFine(lns2, cfgs2, evaluationDate, id) =
          calculateFine(loans, fineConfigs, evaluationDate, id)

\* a fine computed under a policy in force has been written, and a second
\* store resolves to that policy behind an older, different active row
C21_Witness ==
  /\ fines # << >>
  /\ fineConfigs # << >>
  /\ \E c2 \in SamePolicyConfigs(fineConfigs) :
        Len(c2) = 2 /\ c2[1].is_active /\ c2[1] # c2[2]
  /\ \E id \in DOMAIN loans :
        calculateFine(loans, fineConfigs, now, id) # << >>

C23_PaidDateIffPaid ==
  \A f \in DOMAIN fines :
     (fines[f].paid_date # NullDate) <=> (fines[f].status = "paid")

\* C24: whenever a step rewrites a pending fine (the sweep or Return
\* recomputing it), the row's amount, days_overdue and fine_rate_per_day are
\* all those of the computation made in that step, so the stored rate is the
\* one the stored amount was computed with; a fine that is paid or waived
\* keeps its amount and rate in every step.
C24_RecomputedFineCarriesItsRate ==
  [][ \A f \in DOMAIN fines :
        LET before   == fines[f]
            after    == fines'[f]
            fineData == calculateFine(loans, fineConfigs, now, before.issued_book_id)
        IN /\ before.status \in {"paid", "waived"} =>
                /\ after.amount = before.amount
                /\ after.fine_rate_per_day = before.fine_rate_per_day
           /\ ( /\ before.status = "pending"
                /\ <<after.amount, after.days_overdue, after.fine_rate_per_day>>
                     # <<before.amount, before.days_overdue, before.fine_rate_per_day>> ) =>
                /\ fineData # << >>
                /\ after.amount = fineData[1].amount
                /\ after.days_overdue = fineData[1].days_overdue
                /\ after.fine_rate_per_day = fineData[1].fine_rate_per_day ]_vars

\* C25: calculateFine uses the most recently created fine_configs row that has
\* is_active = true: its result is the one it gives when that row is the only
\* row of the table, and the rate it reports is that row's; when no row is
\* active it computes with rate 5 a day, no grace period and no cap.
C25_PolicyIsNewestActiveRow ==
  \A id \in DOMAIN loans, evaluationDate \in LateInstantInputs :
     LET fineData   == calculateFine(loans, fineConfigs, evaluationDate, id)
         activeRows == {i \in DOMAIN fineConfigs : fineConfigs[i].is_active}
         loan       == loans[id]
     IN loan.status # "returned" =>
          /\ \A i \in activeRows :
                (\A j \in activeRows : j <= i) =>
                   /\ fineData = calculateFine(loans, << fineConfigs[i] >>, evaluationDate, id)
                   /\ fineData # << >> =>
                        fineData[1].fine_rate_per_day = fineConfigs[i].fine_rate_per_day
          /\ activeRows = {} =>
                IF evaluationDate <= DayStart(loan.due_date)
                THEN fineData = << >>
                ELSE /\ fineData # << >>
                     /\ fineData[1].fine_rate_per_day = 5
                     /\ fineData[1].days_overdue = RawDays(loan.due_date, evaluationDate)
                     /\ fineData[1].amount = 5 * RawDays(loan.due_date, evaluationDate)

\* a table whose newest row is inactive and whose older row is active with
\* another rate, and a fine computed at the older row's rate
C25_Witness ==
  /\ Len(fineConfigs) = 2
  /\ fineConfigs[1].is_active
  /\ ~fineConfigs[2].is_active
  /\ fineConfigs[1].fine_rate_per_day # fineConfigs[2].fine_rate_per_day
  /\ \E f \in DOMAIN fines, evaluationDate \in LateInstantInputs :
        /\ loans[fines[f].issued_book_id].status # "returned"
        /\ calculateFine(loans, fineConfigs, evaluationDate, fines[f].issued_book_id)
             = << [ issued_book_id    |-> fines[f].issued_book_id,
                    student_id        |-> fines[f].student_id,
                    amount            |-> fines[f].amount,
                    days_overdue      |-> fines[f].days_overdue,
                    fine_rate_per_day |-> fineConfigs[1].fine_rate_per_day ] >>

\* C26: with the daily run weakly fair, every loan that is still "issued"
\* past its due date plus the grace period is later either returned or
\* "overdue" with a pending fine, also when runs before it threw and were
\* caught by the scheduler's callback.
C26_OverdueLoanEventuallyFined ==
  \A l \in 1..MaxLoans :
     ( /\ l \in DOMAIN loans
       /\ loans[l].status = "issued"
       /\ calculateFine(loans, fineConfigs, now, l) # << >> )
     ~> ( /\ l \in DOMAIN loans
          /\ \/ loans[l].status = "returned"
             \/ /\ loans[l].status = "overdue"
                /\ PendingFinesOfLoan(fines, l) # {} )

\* a loan set to "overdue" with a pending fine by a run that followed a failed
\* run: the failed run's fine was paid or waived in between
C26_Witness ==
  \E l \in DOMAIN loans :
     /\ loans[l].status = "overdue"
     /\ PendingFinesOfLoan(fines, l) # {}
     /\ FinesOfLoan(fines, l) # PendingFinesOfLoan(fines, l)
     /\ \A f \in PendingFinesOfLoan(fines, l) :
           calculateFine(loans, fineConfigs, now, l)
             = << [ issued_book_id    |-> l,
                    student_id        |-> loans[l].student_id,
                    amount            |-> fines[f].amount,
                    days_overdue      |-> fines[f].days_overdue,
                    fine_rate_per_day |-> fines[f].fine_rate_per_day ] >>

\* C27: while Issue requests interleave at their store accesses, no write
\* leaves a book with available_copies below 0; two requests that both read
\* the last available copy both succeed (the state of C27_Witness).
C27_AvailableCopiesNeverNegative ==
  \A b \in DOMAIN books : books[b].available_copies >= 0

\* both requests read available_copies = 1 of the same book and both answered
\* 201: two non-returned loans of the book, available_copies = 0
C27_Witness ==
  /\ Len(inflight) = 2
  /\ \A r \in Slots : /\ inflight[r].op = "issue"
                       /\ inflight[r].pc = "done"
                       /\ inflight[r].status = 201
                       /\ inflight[r].available_copies = 1
  /\ inflight[1].book_id = inflight[2].book_id
  /\ Cardinality(NonReturnedLoansOfBook(loans, inflight[1].book_id)) = 2
  /\ books[inflight[1].book_id].available_copies = 0

\* C28: in every interleaving of a Return with a sweep that selected the same
\* loan, once the Return has answered, the loan it set to "returned" keeps that
\* status in every later step: the sweep does not set it back to "overdue".
C28_ReturnedLoanStaysReturned ==
  [][ \A l \in DOMAIN loans :
        ( /\ loans[l].status = "returned"
          /\ \A r \in Slots : inflight[r].op = "return" => inflight[r].pc = "done" )
        => loans'[l].status = "returned" ]_vars

\* C29: a successful UpdateBook that changes total_copies sets available_copies
\* to the new total minus the copies out (old total - old available), or to 0
\* when the new total is below that count; one that does not change
\* total_copies leaves available_copies as it was; DeleteBook changes neither
\* total_copies nor available_copies.
C29_UpdateBookKeepsIssuedCount ==
  \A id \in DOMAIN books :
     LET book   == books[id]
         issued == book.total_copies - book.available_copies
         after  == DeleteBook(books, id).books[id]
     IN /\ after.total_copies = book.total_copies
        /\ after.available_copies = book.available_copies
        /\ \A total_copies \in {NoInput} \cup 1..MaxCopies,
              available_copies \in AvailableInputs :
              LET r == UpdateBook(books, id, total_copies, available_copies)
              IN r.resp.status = 200 =>
                   IF total_copies # NoInput /\ total_copies # book.total_copies
                   THEN /\ r.books[id].total_copies = total_copies
                        /\ r.books[id].available_copies =
                             (IF total_copies >= issued THEN total_copies - issued
                                                        ELSE 0)
                   ELSE r.books[id].available_copies = book.available_copies

\* C30: a review succeeds exactly on a suggestion whose status is pending, and
\* then sets status to the approved or rejected it was given together with
\* reviewed_by and review_date; on any other suggestion it answers 404 and
\* writes nothing; and in every step a reviewed suggestion that stays in the
\* table keeps its status, reviewed_by, review_date and review_notes.
C30_SuggestionReviewedAtMostOnce ==
  [][ /\ \A id \in SuggestionIdInputs, status \in {"approved", "rejected"},
            review_notes \in ReviewNotesInputs, userId \in LibrarianIdInputs :
           LET r == ReviewSuggestion(suggestions, now, id, status, review_notes, userId)
           IN IF /\ id \in DOMAIN suggestions
                 /\ ~suggestions[id].destroyed
                 /\ suggestions[id].status = "pending"
              THEN /\ r.resp.status = 200
                   /\ r.suggestions[id].status = status
                   /\ r.suggestions[id].reviewed_by = userId
                   /\ r.suggestions[id].review_date = DateOnly(now)
                   /\ r.suggestions[id].review_date # NullDate
                   /\ \A other \in DOMAIN suggestions \ {id} :
                         r.suggestions[other] = suggestions[other]
              ELSE /\ r.resp.status = 404
                   /\ r.suggestions = suggestions
      /\ \A id \in DOMAIN suggestions :
           suggestions[id].status # "pending" =>
              /\ id \in DOMAIN suggestions'
              /\ suggestions'[id].destroyed
                 \/ /\ suggestions'[id].status = suggestions[id].status
                    /\ suggestions'[id].reviewed_by = suggestions[id].reviewed_by
                    /\ suggestions'[id].review_date = suggestions[id].review_date
                    /\ suggestions'[id].review_notes = suggestions[id].review_notes ]_vars

\* a suggestion reviewed on an earlier day, still in the table, while review
\* requests for it keep arriving
C30_Witness ==
  \E id \in DOMAIN suggestions :
     /\ ~suggestions[id].destroyed
     /\ suggestions[id].status \in {"approved", "rejected"}
     /\ suggestions[id].reviewed_by \in LibrarianIdInputs
     /\ suggestions[id].review_date # NullDate
     /\ suggestions[id].review_date < DateOnly(now)

====
